---- MODULE Spec2Model ----
(***************************************************************************)
(* A model of the Raft node of tinykv (src/raft/raft.go, src/raft/msg.go). *)
(* A node is a record with the fields of the Go struct Raft; every Go      *)
(* method is an operator from the node record (and its arguments) to the   *)
(* node record after the call.  A call to log.Panicf aborts the process:   *)
(* the operator sets the field panic, and no action yields such a record.  *)
(***************************************************************************)
EXTENDS Integers, Sequences, FiniteSets, TLC

VARIABLES raft, net, elected, ballots, calls

vars == <<raft, net, elected, ballots, calls>>

----------------------------------------------------------------------------
(* Bounds of the exploration. *)

MaxTerm == 2
MaxIndex == 1
MaxLogIndex == 2
MaxTicks == 2
MaxHup == 2
MaxPropose == 1

(* Program constants. *)

None == 0
ElectionTick == 2
HeartbeatTick == 1

StateFollower == "StateFollower"
StateCandidate == "StateCandidate"
StateLeader == "StateLeader"

VoteWon == "VoteWon"
VoteLost == "VoteLost"
VotePending == "VotePending"

Clusters == {{1}, {1, 2, 3}}

min(a, b) == IF a < b THEN a ELSE b

max(a, b) == IF a > b THEN a ELSE b

----------------------------------------------------------------------------
(* Messages: pb.Message, with the zero value of every field not set. *)

BlankMsg ==
    [MsgType |-> "MsgHup", To |-> None, From |-> None, Term |-> 0,
     LogTerm |-> 0, Index |-> 0, Entries |-> <<>>, Commit |-> 0,
     Reject |-> FALSE]

Entry(term, index) == [Term |-> term, Index |-> index]

----------------------------------------------------------------------------
(* RaftLog.  entries[1] is the Go slice's element 0, the sentinel at start. *)

LastLog(l) == l.entries[Len(l.entries)]

LastIndex(l) == LastLog(l).Index

NextIndex(l) == LastLog(l).Index + 1

LastTerm(l) == LastLog(l).Term

First(l) == l.start + 1

Contain(l, index) == First(l) <= index /\ index <= LastIndex(l)

(* IsConflict that forgets to compare the terms: it breaks log matching. *)
IsConflictIndexOnly(l, index, term) == ~Contain(l, index)

IsConflict(l, index, term) ==
    \/ ~Contain(l, index)
    \/ l.entries[index - l.start + 1].Term # term

(* entryAt returns the entry, or the error in err. *)
entryAt(l, index) ==
    IF index = l.start THEN [err |-> "nil", entry |-> l.entries[1]]
    ELSE IF index < First(l) THEN [err |-> "ErrCompacted", entry |-> Entry(0, 0)]
    ELSE IF index > LastIndex(l) THEN [err |-> "ErrUnavailable", entry |-> Entry(0, 0)]
    ELSE [err |-> "nil", entry |-> l.entries[index - l.start + 1]]

logAppend(l, es) == [l EXCEPT !.entries = l.entries \o es]

(* slice returns the entries with index in [lo, hi]. *)
slice(l, lo, hi) ==
    IF hi < lo THEN <<>>
    ELSE IF hi < First(l) THEN <<>>
    ELSE LET lo1 == max(lo, First(l))
             hi1 == min(max(hi, First(l)), LastIndex(l))
         IN  SubSeq(l.entries, lo1 - l.start + 1, hi1 - l.start + 1)

(* truncate that keeps the entry at index: a cut one entry late *)
truncateAfter(l, index) ==
    LET cut == [l EXCEPT !.entries =
                   SubSeq(l.entries, 1, min(index - l.start + 1, Len(l.entries)))]
    IN  [cut EXCEPT !.stabled = min(l.stabled, LastIndex(cut))]

truncate(l, index) ==
    LET cut == [l EXCEPT !.entries = SubSeq(l.entries, 1, index - l.start)]
    IN  [cut EXCEPT !.stabled = min(l.stabled, LastIndex(cut))]

(* updateCommitIndex without the test of a smaller commit *)
updateCommitIndexAlways(l, commit) == [l EXCEPT !.committed = commit]

updateCommitIndex(l, commit) ==
    IF commit < l.committed THEN l ELSE [l EXCEPT !.committed = commit]

(* A Storage: FirstIndex() is first, Term(first - 1) is term, Entries of  *)
(* [first, LastIndex() + 1) is ents, the Commit of InitialState() is       *)
(* commit and Snapshot() returns the error snapshot.                       *)
Storage(first, term, ents, commit, snapshot) ==
    [first |-> first, term |-> term, ents |-> ents, commit |-> commit,
     snapshot |-> snapshot]

EmptyStorage == Storage(1, 0, <<>>, 0, "nil")

newLog(storage) ==
    [storage   |-> storage,
     committed |-> storage.commit,
     applied   |-> storage.first - 1,
     stabled   |-> storage.first - 1 + Len(storage.ents),
     entries   |-> <<Entry(storage.term, storage.first - 1)>> \o storage.ents,
     start     |-> storage.first - 1]

----------------------------------------------------------------------------
(* Progress *)

mayUpdateIndex(p, index) ==
    LET m == IF index > p.Match THEN index ELSE p.Match
    IN  [Match |-> m, Next |-> max(m + 1, p.Next)]

----------------------------------------------------------------------------
(* Raft *)

(* nodes(r): the ids of r.Prs in increasing order. *)
RECURSIVE sorted(_)
sorted(S) ==
    IF S = {} THEN <<>>
    ELSE LET x == CHOOSE y \in S : \A z \in S : y <= z
         IN  <<x>> \o sorted(S \ {x})

nodes(r) == sorted(DOMAIN r.Prs)

(* newRaft: Term and Vote start at their zero values; timeout is the *)
(* outcome of c.ElectionTick + randN(c.ElectionTick).                 *)
newRaft(id, peers, storage, timeout) ==
    [id |-> id,
     peers |-> peers,
     Term |-> 0,
     Vote |-> None,
     RaftLog |-> newLog(storage),
     Prs |-> [p \in peers |-> [Match |-> 0, Next |-> 0]],
     State |-> StateFollower,
     votes |-> <<>>,
     msgs |-> <<>>,
     Lead |-> None,
     heartbeatTimeout |-> HeartbeatTick,
     electionTimeout |-> timeout,
     heartbeatElapsed |-> 0,
     electionElapsed |-> 0,
     panic |-> FALSE]

send(r, m) ==
    LET m1 == IF m.Term = None THEN [m EXCEPT !.Term = r.Term] ELSE m
        m2 == IF m1.From = None THEN [m1 EXCEPT !.From = r.id] ELSE m1
    IN  [r EXCEPT !.msgs = Append(r.msgs, m2)]

Panicf(r) == [r EXCEPT !.panic = TRUE]

(* msg.go *)

(* the constructor sendHeartbeat calls, with the commit it computed *)
NewHeartbeatMsg(r, to, commit) ==
    [BlankMsg EXCEPT !.MsgType = "MsgHeartbeat", !.To = to, !.Commit = commit]

(* NewHeartbeatMsg(to) of msg.go, which NewAppendMsg calls; it panics when *)
(* r is no Leader, which sendAppend checks.                                *)
NewHeartbeatMsgTo(r, to) ==
    [BlankMsg EXCEPT !.MsgType = "MsgHeartbeat", !.To = to,
                     !.Commit = r.RaftLog.committed]

NewRequestVoteMsg(r, to) ==
    [BlankMsg EXCEPT !.MsgType = "MsgRequestVote", !.To = to,
                     !.LogTerm = LastLog(r.RaftLog).Term,
                     !.Index = LastLog(r.RaftLog).Index]

NewResponseVoteMsg(r, to, reject) ==
    [BlankMsg EXCEPT !.MsgType = "MsgRequestVoteResponse", !.To = to,
                     !.From = r.id, !.Reject = reject]

NewResponseAppendMsg(r, to, index, reject) ==
    [BlankMsg EXCEPT !.MsgType = "MsgAppendResponse", !.To = to,
                     !.Reject = reject, !.Index = index]

(* NewAppendMsg: a Snapshot when the previous entry is compacted, or a    *)
(* Heartbeat when the storage has no snapshot yet; its panics are those    *)
(* of sendAppend below.                                                    *)
NewAppendMsg(r, to) ==
    LET pr == r.Prs[to]
        prev == entryAt(r.RaftLog, pr.Next - 1)
    IN  IF prev.err = "ErrCompacted"
        THEN IF r.RaftLog.storage.snapshot = "ErrSnapshotTemporarilyUnavailable"
             THEN NewHeartbeatMsgTo(r, to)
             ELSE [BlankMsg EXCEPT !.MsgType = "MsgSnapshot", !.To = to]
        ELSE [BlankMsg EXCEPT !.MsgType = "MsgAppend", !.To = to,
                              !.Index = prev.entry.Index,
                              !.LogTerm = prev.entry.Term,
                              !.Commit = r.RaftLog.committed,
                              !.Entries = slice(r.RaftLog, pr.Next,
                                                LastIndex(r.RaftLog))]

(* sendAppend enqueues nothing when Next is the next index of the log.    *)
(* NewAppendMsg panics when r is no Leader, when the previous index is    *)
(* unavailable (Next = 0 makes the uint64 Next - 1 wrap above every       *)
(* index) and when Snapshot() fails otherwise than temporarily.           *)
sendAppend(r, to) ==
    IF to = r.id THEN Panicf(r)
    ELSE IF r.Prs[to].Next = NextIndex(r.RaftLog) THEN r
    ELSE IF r.State # StateLeader THEN Panicf(r)
    ELSE IF r.Prs[to].Next = 0 THEN Panicf(r)
    ELSE IF entryAt(r.RaftLog, r.Prs[to].Next - 1).err = "ErrUnavailable" THEN Panicf(r)
    ELSE IF /\ entryAt(r.RaftLog, r.Prs[to].Next - 1).err = "ErrCompacted"
            /\ r.RaftLog.storage.snapshot
                  \notin {"nil", "ErrSnapshotTemporarilyUnavailable"}
    THEN Panicf(r)
    ELSE send(r, NewAppendMsg(r, to))

(* what sendAppend returns: true when Next is the next index of the log *)
(* ("nothing to send"), false after the send                            *)
sendAppendReturn(r, to) == r.Prs[to].Next = NextIndex(r.RaftLog)

sendHeartbeat(r, to) ==
    IF to = r.id THEN Panicf(r)
    ELSE IF r.State # StateLeader THEN Panicf(r)
    ELSE send(r, NewHeartbeatMsg(r, to, min(r.Prs[to].Match, r.RaftLog.committed)))

(* Visit(f, false) with f = sendAppend *)
RECURSIVE visitSendAppend(_, _)
visitSendAppend(r, ids) ==
    IF ids = <<>> THEN r
    ELSE IF Head(ids) = r.id THEN visitSendAppend(r, Tail(ids))
    ELSE visitSendAppend(sendAppend(r, Head(ids)), Tail(ids))

bcastAppend(r) == visitSendAppend(r, nodes(r))

(* Visit(f, false) with f = sendHeartbeat *)
RECURSIVE visitSendHeartbeat(_, _)
visitSendHeartbeat(r, ids) ==
    IF ids = <<>> THEN r
    ELSE IF Head(ids) = r.id THEN visitSendHeartbeat(r, Tail(ids))
    ELSE visitSendHeartbeat(sendHeartbeat(r, Head(ids)), Tail(ids))

becomeFollower(r, term, lead) ==
    [r EXCEPT !.Term = term, !.Vote = None, !.Lead = lead,
              !.electionElapsed = 0, !.State = StateFollower]

becomeCandidate(r) ==
    [r EXCEPT !.State = StateCandidate, !.Term = r.Term + 1,
              !.Vote = r.id, !.votes = <<>>]

(* leaderAppendEntries that stamps the term and keeps the index each *)
(* entry came with: the no-op of a promotion would sit at index 1.    *)
leaderAppendEntriesVerbatim(r, es) ==
    IF r.State # StateLeader THEN Panicf(r)
    ELSE LET esA == [i \in 1..Len(es) |-> Entry(r.Term, es[i].Index)]
             l1  == logAppend(r.RaftLog, esA)
             li1 == LastIndex(l1)
             r1  == send([r EXCEPT !.RaftLog = l1],
                         [BlankMsg EXCEPT !.MsgType = "MsgAppendResponse",
                                          !.To = r.id, !.Index = li1,
                                          !.Reject = FALSE])
         IN  [r1 EXCEPT !.Prs[r.id] = mayUpdateIndex(r.Prs[r.id], li1)]

leaderAppendEntries(r, es) ==
    IF r.State # StateLeader THEN Panicf(r)
    ELSE LET li  == LastIndex(r.RaftLog)
             esA == [i \in 1..Len(es) |-> Entry(r.Term, li + 1 + (i - 1))]
             l1  == logAppend(r.RaftLog, esA)
             li1 == LastIndex(l1)
             r1  == send([r EXCEPT !.RaftLog = l1],
                         [BlankMsg EXCEPT !.MsgType = "MsgAppendResponse",
                                          !.To = r.id, !.Index = li1,
                                          !.Reject = FALSE])
         IN  [r1 EXCEPT !.Prs[r.id] = mayUpdateIndex(r.Prs[r.id], li1)]

becomeLeader(r) ==
    IF r.Vote = None \/ r.State # StateCandidate THEN Panicf(r)
    ELSE LET r1 == [r EXCEPT !.State = StateLeader,
                             !.electionElapsed = 0,
                             !.Prs = [p \in DOMAIN r.Prs |->
                                        [r.Prs[p] EXCEPT !.Next = r.Prs[p].Match + 1]],
                             !.Lead = r.id]
         IN  leaderAppendEntries(r1, <<Entry(r.Term, 1)>>)

RECURSIVE logAppendEntries(_, _)
logAppendEntries(l, entries) ==
    IF entries = <<>> THEN l
    ELSE LET entry == Head(entries)
         IN  IF IsConflict(l, entry.Index, entry.Term)
             THEN logAppendEntries(logAppend(truncate(l, entry.Index), <<entry>>),
                                   Tail(entries))
             ELSE IF Contain(l, entry.Index)
             THEN logAppendEntries(l, Tail(entries))
             ELSE logAppendEntries(logAppend(l, <<entry>>), Tail(entries))

appendEntries(r, entries) ==
    [r EXCEPT !.RaftLog = logAppendEntries(r.RaftLog, entries)]

resetElectionTimeOut(r) == [r EXCEPT !.electionElapsed = 0]

handleAppendEntries(r, m) ==
    LET prevLog == entryAt(r.RaftLog, m.Index)
    IN  IF prevLog.err = "ErrCompacted"
        THEN send(r, NewResponseAppendMsg(r, m.From, r.RaftLog.committed, FALSE))
        ELSE IF prevLog.err # "nil"
        THEN send(r, NewResponseAppendMsg(r, m.From, 0, TRUE))
        ELSE IF prevLog.entry.Term # m.LogTerm
        THEN send(r, NewResponseAppendMsg(r, m.From, 0, TRUE))
        ELSE LET r1 == appendEntries(resetElectionTimeOut(r), m.Entries)
                 newIndex == LastIndex(r1.RaftLog)
                 r2 == IF r1.RaftLog.committed < m.Commit
                       THEN [r1 EXCEPT !.RaftLog =
                               updateCommitIndex(r1.RaftLog, min(newIndex, m.Commit))]
                       ELSE r1
             IN  send(r2, NewResponseAppendMsg(r2, m.From,
                                               m.Index + Len(m.Entries), FALSE))

handleHeartbeat(r, m) == becomeFollower(r, m.Term, m.To)

handleProse(r, m) == bcastAppend(leaderAppendEntries(r, m.Entries))

(* The vote grant rule of the receiver: the vote is free or already given *)
(* to the sender, and the sender's log is at least as up to date.         *)
handleVote(r, m) ==
    LET upToDate == \/ m.LogTerm > LastTerm(r.RaftLog)
                    \/ /\ m.LogTerm = LastTerm(r.RaftLog)
                       /\ m.Index >= LastIndex(r.RaftLog)
    IN  IF (r.Vote = None \/ r.Vote = m.From) /\ upToDate
        THEN send([r EXCEPT !.Vote = m.From, !.electionElapsed = 0],
                  NewResponseVoteMsg(r, m.From, FALSE))
        ELSE send(r, NewResponseVoteMsg(r, m.From, TRUE))

(* poll records the vote of from and counts: won with a quorum of grants, *)
(* lost with a quorum of rejections.                                      *)
pollVotes(r, from, granted) == (from :> granted) @@ r.votes

pollResult(r, votes) ==
    LET q  == (Cardinality(DOMAIN r.Prs) \div 2) + 1
        gr == Cardinality({p \in DOMAIN votes : votes[p]})
        rj == Cardinality({p \in DOMAIN votes : ~votes[p]})
    IN  IF gr >= q THEN VoteWon
        ELSE IF rj >= q THEN VoteLost
        ELSE VotePending

stepFollower(r, m) ==
    IF r.State # StateFollower THEN Panicf(r)
    ELSE CASE m.MsgType = "MsgBeat" -> handleHeartbeat(r, m)
           [] m.MsgType = "MsgRequestVote" -> handleVote(r, m)
           [] m.MsgType = "MsgAppend" -> handleAppendEntries(r, m)
           [] OTHER -> r

(* stepCandidate that counts every vote response as a grant, the Reject *)
(* flag unread: it breaks election safety.                              *)
stepCandidateAnyResponse(r, m) ==
    IF r.State # StateCandidate THEN Panicf(r)
    ELSE CASE m.MsgType = "MsgBeat" -> handleHeartbeat(r, m)
           [] m.MsgType = "MsgRequestVoteResponse" ->
                LET r1  == [r EXCEPT !.votes = pollVotes(r, m.From, TRUE)]
                    res == pollResult(r1, r1.votes)
                IN  IF res = VoteWon
                    THEN IF r1.State = StateCandidate
                         THEN bcastAppend(becomeLeader(r1))
                         ELSE r1
                    ELSE IF res = VoteLost
                    THEN becomeFollower(r1, r1.Term, None)
                    ELSE r1
           [] OTHER -> r

stepCandidate(r, m) ==
    IF r.State # StateCandidate THEN Panicf(r)
    ELSE CASE m.MsgType = "MsgBeat" -> handleHeartbeat(r, m)
           [] m.MsgType = "MsgRequestVoteResponse" ->
                LET r1  == [r EXCEPT !.votes = pollVotes(r, m.From, ~m.Reject)]
                    res == pollResult(r1, r1.votes)
                IN  IF res = VoteWon
                    THEN IF r1.State = StateCandidate
                         THEN bcastAppend(becomeLeader(r1))
                         ELSE r1
                    ELSE IF res = VoteLost
                    THEN becomeFollower(r1, r1.Term, None)
                    ELSE r1
           [] OTHER -> r

(* stepLeader that decrements Next on every rejection, without the floor *)
(* of Match + 1                                                          *)
stepLeaderDecrement(r, m) ==
    IF r.State # StateLeader THEN Panicf(r)
    ELSE CASE m.MsgType = "MsgHeartbeat" -> visitSendHeartbeat(r, nodes(r))
           [] m.MsgType = "MsgPropose" -> handleProse(r, m)
           [] m.MsgType = "MsgAppendResponse" ->
                IF m.Reject = FALSE
                THEN [r EXCEPT !.Prs[m.From] =
                        [Next  |-> max(r.Prs[m.From].Next, m.Index + 1),
                         Match |-> max(r.Prs[m.From].Match, m.Index)]]
                ELSE [r EXCEPT !.Prs[m.From].Next = r.Prs[m.From].Next - 1]
           [] OTHER -> r

stepLeader(r, m) ==
    IF r.State # StateLeader THEN Panicf(r)
    ELSE CASE m.MsgType = "MsgHeartbeat" -> visitSendHeartbeat(r, nodes(r))
           [] m.MsgType = "MsgPropose" -> handleProse(r, m)
           [] m.MsgType = "MsgAppendResponse" ->
                IF m.Reject = FALSE
                THEN [r EXCEPT !.Prs[m.From] =
                        [Next  |-> max(r.Prs[m.From].Next, m.Index + 1),
                         Match |-> max(r.Prs[m.From].Match, m.Index)]]
                ELSE r
           [] OTHER -> r

(* r.step(r, m): the step function is the one of r.State *)
step(r, m) ==
    CASE r.State = StateFollower -> stepFollower(r, m)
      [] r.State = StateCandidate -> stepCandidate(r, m)
      [] r.State = StateLeader -> stepLeader(r, m)

RECURSIVE hupVisit(_, _)
hupVisit(r, ids) ==
    IF ids = <<>> THEN r
    ELSE IF Head(ids) = r.id
    THEN hupVisit(step(r, NewResponseVoteMsg(r, r.id, FALSE)), Tail(ids))
    ELSE IF r.State # StateCandidate THEN Panicf(r)
    ELSE hupVisit(send(r, NewRequestVoteMsg(r, Head(ids))), Tail(ids))

hup(r) ==
    IF r.State = StateLeader THEN r
    ELSE hupVisit(becomeCandidate(r), nodes(r))

(* Step that takes the sender of every message of a higher term as leader *)
StepLeadAlways(r, m) ==
    LET r1 == IF m.Term = 0 THEN r
              ELSE IF r.Term < m.Term
              THEN becomeFollower(r, m.Term, m.From)
              ELSE r
    IN  IF m.Term # 0 /\ r.Term > m.Term THEN r
        ELSE IF m.MsgType = "MsgHup" THEN hup(r1)
        ELSE step(r1, m)

Step(r, m) ==
    LET r1 == IF m.Term = 0 THEN r
              ELSE IF r.Term < m.Term
              THEN IF m.MsgType \in {"MsgAppend", "MsgHeartbeat", "MsgSnapshot"}
                   THEN becomeFollower(r, m.Term, m.From)
                   ELSE becomeFollower(r, m.Term, None)
              ELSE r
    IN  IF m.Term # 0 /\ r.Term > m.Term THEN r
        ELSE IF m.MsgType = "MsgHup" THEN hup(r1)
        ELSE step(r1, m)

tick(r) ==
    LET r1 == [r EXCEPT !.heartbeatElapsed = r.heartbeatElapsed + 1,
                        !.electionElapsed = r.electionElapsed + 1]
    IN  IF r1.State = StateLeader
        THEN IF r1.heartbeatElapsed >= r1.heartbeatTimeout
             THEN step(r1, [BlankMsg EXCEPT !.MsgType = "MsgBeat"])
             ELSE r1
        ELSE IF r1.electionElapsed >= r1.electionTimeout
        THEN becomeCandidate(r1)
        ELSE r1

----------------------------------------------------------------------------
(* The cluster.  raft[n] is node n; net is the set of messages the hosts   *)
(* have taken from the nodes' msgs: a message in net may be delivered any  *)
(* number of times, in any order, or never.  elected records every         *)
(* <<term, node>> at which a node was Leader, ballots every                *)
(* <<node, term, vote>> a node held, calls the number of campaigns and     *)
(* proposals the hosts have made.                                          *)

Range(s) == {s[i] : i \in DOMAIN s}

Timeouts == ElectionTick .. (2 * ElectionTick - 1)

HupMsg == [BlankMsg EXCEPT !.MsgType = "MsgHup"]

BeatMsg == [BlankMsg EXCEPT !.MsgType = "MsgBeat"]

ProposeMsg == [BlankMsg EXCEPT !.MsgType = "MsgPropose", !.Entries = <<Entry(0, 0)>>]

TicksDone == LET RECURSIVE sum(_)
                 sum(S) == IF S = {} THEN 0
                           ELSE LET x == CHOOSE y \in S : TRUE
                                IN  raft[x].heartbeatElapsed + sum(S \ {x})
             IN  sum(DOMAIN raft)

(* Campaigners are the nodes the hosts campaign on, Tickers the nodes the  *)
(* hosts tick; Campaign is the order of the campaigns of SpecRepl.         *)
Campaigners == {1, 3}

Tickers == {2}

Campaign == <<1, 3>>

(* A cluster on empty storage.  The randomized timeout matters to a node *)
(* that is ticked only.                                                   *)
Init ==
    /\ \E c \in Clusters :
          raft \in [c -> {newRaft(n, c, EmptyStorage, t) : n \in c, t \in Timeouts}]
    /\ \A n \in DOMAIN raft :
          /\ raft[n].id = n
          /\ n \notin Tickers => raft[n].electionTimeout = ElectionTick
    /\ net = {}
    /\ elected = {}
    /\ ballots = {}
    /\ calls = [hup |-> 0, propose |-> 0]

(* A call on node n whose result is r, followed by the host taking msgs. *)
Call(n, r) ==
    /\ ~r.panic
    /\ raft' = [raft EXCEPT ![n] = [r EXCEPT !.msgs = <<>>]]
    /\ net' = net \cup Range(r.msgs)
    /\ elected' = IF r.State = StateLeader THEN elected \cup {<<r.Term, n>>} ELSE elected
    /\ UNCHANGED ballots

Tick(n) ==
    /\ TicksDone < MaxTicks
    /\ Call(n, tick(raft[n]))
    /\ UNCHANGED calls

Hup(n) ==
    /\ calls.hup < MaxHup
    /\ Call(n, Step(raft[n], HupMsg))
    /\ calls' = [calls EXCEPT !.hup = @ + 1]

Propose(n) ==
    /\ calls.propose < MaxPropose
    /\ raft[n].State = StateLeader
    /\ Call(n, Step(raft[n], ProposeMsg))
    /\ calls' = [calls EXCEPT !.propose = @ + 1]

Deliver(m) ==
    /\ m.To \in DOMAIN raft
    /\ Call(m.To, Step(raft[m.To], m))
    /\ UNCHANGED calls

(* Elections: ticks, campaigns and deliveries. *)
Next ==
    \/ \E n \in DOMAIN raft \cap Tickers : Tick(n)
    \/ \E n \in DOMAIN raft \cap Campaigners : Hup(n)
    \/ \E m \in net : Deliver(m)

Spec == Init /\ [][Next]_vars

(* Replication: the campaigns of Campaign in turn, proposals to a leader *)
(* and deliveries.                                                        *)
NextCampaign == Campaign[(calls.hup % Len(Campaign)) + 1]

InitRepl ==
    /\ raft = [n \in {1, 2, 3} |-> newRaft(n, {1, 2, 3}, EmptyStorage, ElectionTick)]
    /\ net = {}
    /\ elected = {}
    /\ ballots = {}
    /\ calls = [hup |-> 0, propose |-> 0]

NextRepl ==
    \/ Hup(NextCampaign)
    \/ \E n \in DOMAIN raft : Propose(n)
    \/ \E m \in net : Deliver(m)

SpecRepl == InitRepl /\ [][NextRepl]_vars

----------------------------------------------------------------------------
(* One node, stepped by its host with any message of the bounded set       *)
(* StepInputs and ticked; the host takes msgs before every call, so that   *)
(* msgs holds what the last call enqueued.                                 *)

NodeClusters == {{1}, {1, 2, 3}}

(* the entries an Append with previous entry (index, logTerm) may carry *)
RECURSIVE EntriesFrom(_, _, _)
EntriesFrom(index, logTerm, term) ==
    {<<>>} \cup
    (IF index >= MaxIndex THEN {}
     ELSE UNION {{<<Entry(t, index + 1)>> \o es : es \in EntriesFrom(index + 1, t, term)} :
                 t \in max(logTerm, 1) .. term})

(* The messages the host may step into node r.  Votes and vote requests   *)
(* come from every other peer; the messages of a leader and the responses *)
(* to a leader come from the least other peer.  A previous index 0 has    *)
(* term 0, as the sentinel has; the Commit of a Heartbeat is read by no    *)
(* handler and is left 0.                                                  *)
StepInputs(r) ==
    LET others == DOMAIN r.Prs \ {r.id}
        one    == {p \in others : \A q \in others : p <= q}
        Net(type, senders) ==
            {[BlankMsg EXCEPT !.MsgType = type, !.To = r.id,
                              !.From = f, !.Term = t] :
             f \in senders, t \in 1 .. MaxTerm}
        Prev == {<<0, 0>>} \cup ((1 .. MaxIndex) \X (1 .. MaxTerm))
    IN  {HupMsg, BeatMsg, ProposeMsg}
        \cup Net("MsgHeartbeatResponse", one) \cup Net("MsgSnapshot", one)
        \cup Net("MsgHeartbeat", one)
        \cup {[m EXCEPT !.Reject = b] :
                m \in Net("MsgRequestVoteResponse", others), b \in BOOLEAN}
        \cup {[m EXCEPT !.Index = p[1], !.LogTerm = p[2]] :
                m \in Net("MsgRequestVote", others), p \in Prev}
        \cup {[m EXCEPT !.Index = i, !.Reject = b] :
                m \in Net("MsgAppendResponse", one), i \in 0 .. MaxIndex,
                b \in BOOLEAN}
        \cup UNION {IF p[2] > m.Term THEN {}
                     ELSE {[m EXCEPT !.Index = p[1], !.LogTerm = p[2], !.Commit = c,
                                     !.Entries = es] :
                           es \in EntriesFrom(p[1], p[2], m.Term), c \in 0 .. MaxIndex} :
                     m \in Net("MsgAppend", one), p \in Prev}

InBounds(r) ==
    /\ ~r.panic
    /\ r.Term <= MaxTerm
    /\ LastIndex(r.RaftLog) <= MaxIndex

InitNode ==
    /\ \E c \in NodeClusters : \E t \in Timeouts :
          raft = [n \in {1} |-> newRaft(n, c, EmptyStorage, t)]
    /\ net = {}
    /\ elected = {}
    /\ ballots = {}
    /\ calls = [hup |-> 0, propose |-> 0]

NodeCall(r) ==
    /\ InBounds(r)
    /\ raft' = [raft EXCEPT ![1] = r]
    /\ UNCHANGED <<net, elected, ballots, calls>>

NodeTick ==
    /\ raft[1].heartbeatElapsed < MaxTicks
    /\ NodeCall(tick([raft[1] EXCEPT !.msgs = <<>>]))

NodeStep ==
    \E m \in StepInputs(raft[1]) :
        NodeCall(Step([raft[1] EXCEPT !.msgs = <<>>], m))

NextNode == NodeTick \/ NodeStep

SpecNode == InitNode /\ [][NextNode]_vars

----------------------------------------------------------------------------
(* One node of a cluster of five in elections: the host campaigns, ticks   *)
(* and steps vote requests and vote responses of the other peers; ballots  *)
(* records every vote the node holds after a call.                         *)

VoteCluster == {1, 2, 3, 4, 5}

VoteInputs(r) ==
    {m \in StepInputs(r) :
       m.MsgType \in {"MsgHup", "MsgRequestVote", "MsgRequestVoteResponse"}}

InitVote ==
    /\ \E t \in Timeouts : raft = [n \in {1} |-> newRaft(n, VoteCluster, EmptyStorage, t)]
    /\ net = {}
    /\ elected = {}
    /\ ballots = {}
    /\ calls = [hup |-> 0, propose |-> 0]

VoteCall(r) ==
    /\ InBounds(r)
    /\ raft' = [raft EXCEPT ![1] = r]
    /\ ballots' = IF r.Vote # None THEN ballots \cup {<<1, r.Term, r.Vote>>} ELSE ballots
    /\ UNCHANGED <<net, elected, calls>>

VoteTick ==
    /\ raft[1].heartbeatElapsed < MaxTicks
    /\ VoteCall(tick([raft[1] EXCEPT !.msgs = <<>>]))

VoteStep ==
    \E m \in VoteInputs(raft[1]) :
        VoteCall(Step([raft[1] EXCEPT !.msgs = <<>>], m))

NextVote == VoteTick \/ VoteStep

SpecVote == InitVote /\ [][NextVote]_vars

----------------------------------------------------------------------------
(* One Follower of the cluster {1, 2, 3}, constructed on a stored log and  *)
(* stepped with the Appends of a leader: the logs go up to MaxLogIndex,    *)
(* the terms up to MaxTerm.                                                *)

(* the entries that may follow the entry (index, logTerm) in a log whose *)
(* terms go up to term and whose indexes go up to last                   *)
RECURSIVE EntriesUpTo(_, _, _, _)
EntriesUpTo(index, logTerm, term, last) ==
    {<<>>} \cup
    (IF index >= last THEN {}
     ELSE UNION {{<<Entry(t, index + 1)>> \o es :
                    es \in EntriesUpTo(index + 1, t, term, last)} :
                 t \in max(logTerm, 1) .. term})

StoredLogs == EntriesUpTo(0, 0, MaxTerm, MaxLogIndex)

AppendInputs(r) ==
    LET Prev == {<<0, 0>>} \cup ((1 .. MaxLogIndex) \X (1 .. MaxTerm))
    IN  UNION {IF p[2] > t THEN {}
               ELSE {[BlankMsg EXCEPT !.MsgType = "MsgAppend", !.To = r.id,
                                      !.From = 2, !.Term = t,
                                      !.Index = p[1], !.LogTerm = p[2],
                                      !.Commit = c, !.Entries = es] :
                     es \in EntriesUpTo(p[1], p[2], t, MaxLogIndex),
                     c \in 0 .. MaxLogIndex + 1} :
               t \in 1 .. MaxTerm, p \in Prev}

InitFollower ==
    /\ \E ents \in StoredLogs :
          raft = [n \in {1} |->
                    newRaft(n, {1, 2, 3}, Storage(1, 0, ents, 0, "nil"), ElectionTick)]
    /\ net = {}
    /\ elected = {}
    /\ ballots = {}
    /\ calls = [hup |-> 0, propose |-> 0]

FollowerStep ==
    \E m \in AppendInputs(raft[1]) :
        \E r \in {Step([raft[1] EXCEPT !.msgs = <<>>], m)} :
            /\ ~r.panic
            /\ raft' = [raft EXCEPT ![1] = r]
            /\ UNCHANGED <<net, elected, ballots, calls>>

NextFollower == FollowerStep

SpecFollower == InitFollower /\ [][NextFollower]_vars

----------------------------------------------------------------------------
(* One node of a cluster of three constructed on a storage that may hold    *)
(* entries or be compacted behind a snapshot: the host campaigns, proposes  *)
(* and steps the vote responses, Append responses and Heartbeats of the     *)
(* peers; calls.rejects counts the rejecting Append responses a Leader has  *)
(* stepped.                                                                 *)

MaxStoredTerm == 3
MaxStoredIndex == 3

(* the storages: empty; one entry of term 1; compacted up to the committed *)
(* index 1 of term 1, with its snapshot ready or not yet                   *)
Storages ==
    {EmptyStorage,
     Storage(1, 0, <<Entry(1, 1)>>, 0, "nil"),
     Storage(2, 1, <<>>, 1, "nil"),
     Storage(2, 1, <<>>, 1, "ErrSnapshotTemporarilyUnavailable")}

StoredInputs(r) ==
    LET Net(type, senders) ==
            {[BlankMsg EXCEPT !.MsgType = type, !.To = r.id,
                              !.From = f, !.Term = t] :
             f \in senders, t \in 1 .. MaxStoredTerm}
    IN  {HupMsg, ProposeMsg}
        \cup Net("MsgHeartbeat", {2})
        \cup {[m EXCEPT !.Reject = b] :
                m \in Net("MsgRequestVoteResponse", {2}), b \in BOOLEAN}
        \cup {[m EXCEPT !.Index = i, !.Reject = b] :
                m \in Net("MsgAppendResponse", {2}), i \in 0 .. MaxStoredIndex,
                b \in BOOLEAN}

InitStored ==
    /\ \E st \in Storages :
          raft = [n \in {1} |-> newRaft(n, {1, 2, 3}, st, ElectionTick)]
    /\ net = {}
    /\ elected = {}
    /\ ballots = {}
    /\ calls = [hup |-> 0, propose |-> 0, rejects |-> 0]

Rejected(r, m) ==
    /\ r.State = StateLeader
    /\ m.MsgType = "MsgAppendResponse"
    /\ m.Reject
    /\ m.Term = r.Term

StoredStep ==
    \E m \in StoredInputs(raft[1]) :
        \E r \in {Step([raft[1] EXCEPT !.msgs = <<>>], m)} :
            /\ ~r.panic
            /\ r.Term <= MaxStoredTerm
            /\ LastIndex(r.RaftLog) <= MaxStoredIndex
            /\ raft' = [raft EXCEPT ![1] = r]
            /\ calls' = [calls EXCEPT !.rejects =
                            IF Rejected(raft[1], m) THEN 1 ELSE 0]
            /\ UNCHANGED <<net, elected, ballots>>

NextStored == StoredStep

SpecStored == InitStored /\ [][NextStored]_vars

----------------------------------------------------------------------------
(* Properties *)

Drained(r) == [r EXCEPT !.msgs = <<>>]

(* the step from raft to raft' is a tick of node n *)
Ticked(n) == raft'[n] = tick(Drained(raft[n]))

(* the number of messages of the given type for peer to in r.msgs *)
Enqueued(r, type, to) ==
    Cardinality({i \in DOMAIN r.msgs :
                   r.msgs[i].MsgType = type /\ r.msgs[i].To = to})

Quorum(r) == (Cardinality(DOMAIN r.Prs) \div 2) + 1

(* index N of the leader's log is of its term and on a quorum of peers *)
Committable(r, N) ==
    /\ Cardinality({p \in DOMAIN r.Prs : r.Prs[p].Match >= N}) >= Quorum(r)
    /\ entryAt(r.RaftLog, N).err = "nil"
    /\ entryAt(r.RaftLog, N).entry.Term = r.Term

(* node r accepts the Append m: after the term alignment of Step it is a *)
(* Follower of the term of m whose log holds the previous entry of m     *)
Accepts(r, m) ==
    /\ m.MsgType = "MsgAppend"
    /\ m.Term >= r.Term
    /\ r.State = StateFollower \/ m.Term > r.Term
    /\ entryAt(r.RaftLog, m.Index).err = "nil"
    /\ entryAt(r.RaftLog, m.Index).entry.Term = m.LogTerm

(* the entry of node n at index i *)
LogAt(n, i) == entryAt(raft[n].RaftLog, i).entry

(* C1: election safety: of the nodes that are or have been Leader, no two   *)
(* were Leader at the same term.                                            *)
C1_ElectionSafety ==
    \A e1 \in elected : \A e2 \in elected : e1[1] = e2[1] => e1[2] = e2[2]

(* a node has won a term that another node contests as Candidate *)
C1_Witness ==
    \E a \in DOMAIN raft : \E b \in DOMAIN raft :
        /\ a # b
        /\ <<raft[a].Term, a>> \in elected
        /\ raft[b].State = StateCandidate
        /\ raft[b].Term = raft[a].Term

CommittedStaysZero == \A n \in DOMAIN raft : raft[n].RaftLog.committed = 0

(* C4: a node holds at most one vote in a term: the votes a node has held   *)
(* at one term, its vote for itself as Candidate included, are all for the  *)
(* same candidate.                                                          *)
C4_OneVotePerTerm ==
    \A b1 \in ballots : \A b2 \in ballots :
        (b1[1] = b2[1] /\ b1[2] = b2[2]) => b1[3] = b2[3]

(* C5: after every call on a node, applied <= committed <= stabled <=       *)
(* last index holds of its log.                                             *)
C5_CursorDiscipline ==
    \A n \in DOMAIN raft :
        LET l == raft[n].RaftLog
        IN  /\ l.applied <= l.committed
            /\ l.committed <= l.stabled
            /\ l.stabled <= LastIndex(l)

(* C6: when a call changes the Match values of a Leader, then on return no  *)
(* index above committed is of the leader's term and matched by a quorum:   *)
(* the leader has committed every such index.                               *)
C6_CommitAdvance ==
    [][\A n \in DOMAIN raft :
         (/\ raft'[n].State = StateLeader
          /\ \E p \in DOMAIN raft[n].Prs :
                raft'[n].Prs[p].Match # raft[n].Prs[p].Match)
         => \A N \in (raft'[n].RaftLog.committed + 1) .. LastIndex(raft'[n].RaftLog) :
                ~Committable(raft'[n], N)]_vars

(* C8: a tick that brings the electionElapsed of a Follower or Candidate to *)
(* its electionTimeout starts an election: the term is one more, the node   *)
(* is no Follower and a RequestVote is enqueued for every other peer.       *)
C8_ElectionByTimeout ==
    [][\A n \in DOMAIN raft :
         (/\ Ticked(n)
          /\ raft[n].State # StateLeader
          /\ raft[n].electionElapsed + 1 >= raft[n].electionTimeout)
         => /\ raft'[n].Term = raft[n].Term + 1
            /\ raft'[n].State # StateFollower
            /\ \A p \in DOMAIN raft[n].Prs \ {n} :
                  Enqueued(raft'[n], "MsgRequestVote", p) = 1]_vars

(* C9: a tick that brings the heartbeatElapsed of a Leader to its           *)
(* heartbeatTimeout enqueues one Heartbeat for every other peer and leaves  *)
(* heartbeatElapsed 0.                                                      *)
C9_HeartbeatByTimeout ==
    [][\A n \in DOMAIN raft :
         (/\ Ticked(n)
          /\ raft[n].State = StateLeader
          /\ raft[n].heartbeatElapsed + 1 >= raft[n].heartbeatTimeout)
         => /\ raft'[n].heartbeatElapsed = 0
            /\ \A p \in DOMAIN raft[n].Prs \ {n} :
                  Enqueued(raft'[n], "MsgHeartbeat", p) = 1]_vars

(* C10: the Term of a node never decreases, whatever the call.              *)
C10_TermMonotone ==
    [][\A n \in DOMAIN raft : raft'[n].Term >= raft[n].Term]_vars

(* C11: the committed index of a node never decreases, whatever the call,   *)
(* and updateCommitIndex with a commit below committed changes nothing.     *)
C11_CommitMonotone ==
    [][\A n \in DOMAIN raft :
         /\ raft'[n].RaftLog.committed >= raft[n].RaftLog.committed
         /\ \A c \in 0 .. raft'[n].RaftLog.committed - 1 :
               updateCommitIndex(raft'[n].RaftLog, c) = raft'[n].RaftLog]_vars

(* a Follower that has accepted an Append which left its log shorter than *)
(* its committed index: the commit the Append offers is below committed    *)
C11_Witness ==
    /\ raft[1].RaftLog.committed > LastIndex(raft[1].RaftLog)
    /\ \E i \in DOMAIN raft[1].msgs :
          /\ raft[1].msgs[i].MsgType = "MsgAppendResponse"
          /\ ~raft[1].msgs[i].Reject
          /\ raft[1].msgs[i].Index < raft[1].RaftLog.committed

(* C12: sendAppend(to) of a Leader returns true exactly when it has        *)
(* enqueued a message for the peer to; when Next is the last index + 1 and *)
(* nothing is enqueued it returns false.                                   *)
C12_SendAppendReturn ==
    \A n \in DOMAIN raft :
        raft[n].State = StateLeader
        => \A to \in DOMAIN raft[n].Prs \ {n} :
              LET r  == Drained(raft[n])
                  r2 == sendAppend(r, to)
              IN  ~r2.panic
                  => (sendAppendReturn(r, to)
                        <=> \E i \in DOMAIN r2.msgs : r2.msgs[i].To = to)

(* C13: a Follower that accepts an Append with previous index p, k entries *)
(* and leader commit c has committed = max(old committed, min(c, p + k))   *)
(* afterwards, also when its log goes beyond p + k.                        *)
C13_FollowerCommit ==
    [][\A m \in AppendInputs(raft[1]) :
         (raft'[1] = Step(Drained(raft[1]), m) /\ Accepts(raft[1], m))
         => raft'[1].RaftLog.committed =
               max(raft[1].RaftLog.committed,
                   min(m.Commit, m.Index + Len(m.Entries)))]_vars

(* C14: after a Follower has accepted an Append with previous index p and  *)
(* k entries, its log holds the entries of the message at p+1..p+k, the    *)
(* entries up to p are unchanged, the log ends at p+k when an incoming     *)
(* entry conflicted in term with an existing one and keeps its entries     *)
(* beyond p+k otherwise, stabled is at most the last index, and the reply  *)
(* is one AppendResponse to the sender with reject false and index p+k.    *)
C14_ConflictRepair ==
    [][\A m \in AppendInputs(raft[1]) :
         (raft'[1] = Step(Drained(raft[1]), m) /\ Accepts(raft[1], m))
         => LET l  == raft[1].RaftLog
                l2 == raft'[1].RaftLog
                p  == m.Index
                k  == Len(m.Entries)
                conflicted ==
                    \E i \in 1 .. k :
                        /\ Contain(l, p + i)
                        /\ entryAt(l, p + i).entry.Term # m.Entries[i].Term
            IN  /\ \A i \in 1 .. k :
                      entryAt(l2, p + i) = [err |-> "nil", entry |-> m.Entries[i]]
                /\ \A j \in 0 .. p : entryAt(l2, j) = entryAt(l, j)
                /\ conflicted => LastIndex(l2) = p + k
                /\ ~conflicted =>
                      /\ LastIndex(l2) = max(LastIndex(l), p + k)
                      /\ \A j \in p + k + 1 .. LastIndex(l) :
                            entryAt(l2, j) = entryAt(l, j)
                /\ l2.stabled <= LastIndex(l2)
                /\ raft'[1].msgs =
                      <<[BlankMsg EXCEPT !.MsgType = "MsgAppendResponse",
                                         !.To = m.From, !.From = 1,
                                         !.Term = raft'[1].Term,
                                         !.Index = p + k, !.Reject = FALSE]>>]_vars

(* a Follower whose stored entries were cut by a conflicting Append it *)
(* has accepted                                                         *)
C14_Witness ==
    /\ raft[1].RaftLog.stabled < Len(raft[1].RaftLog.storage.ents)
    /\ LastIndex(raft[1].RaftLog) >= 1
    /\ \E i \in DOMAIN raft[1].msgs :
          /\ raft[1].msgs[i].MsgType = "MsgAppendResponse"
          /\ ~raft[1].msgs[i].Reject

(* C15: Step of a message of a higher term leaves the node, whatever its   *)
(* role, Follower at the term of the message, with Lead the sender when    *)
(* the message is an Append, a Heartbeat or a Snapshot and none otherwise. *)
C15_StepHigherTerm ==
    \A m \in StepInputs(raft[1]) :
        m.Term > raft[1].Term
        => LET r2 == Step(Drained(raft[1]), m)
           IN  /\ r2.State = StateFollower
               /\ r2.Term = m.Term
               /\ r2.Lead =
                     (IF m.MsgType \in {"MsgAppend", "MsgHeartbeat", "MsgSnapshot"}
                      THEN m.From ELSE None)

(* a node that was Leader of term 1 (it has matched its own no-op) and is *)
(* Follower of peer 2 at term 2                                           *)
C15_Witness ==
    /\ raft[1].State = StateFollower
    /\ raft[1].Term = 2
    /\ raft[1].Lead = 2
    /\ raft[1].Prs[1].Match >= 1

(* C16: a Follower that steps a Heartbeat of peer L at a term not below   *)
(* its own has afterwards Lead = L, electionElapsed = 0 and exactly one    *)
(* HeartbeatResponse addressed to L among its outgoing messages.           *)
C16_HeartbeatReception ==
    \A m \in StepInputs(raft[1]) :
        (/\ raft[1].State = StateFollower
         /\ m.MsgType = "MsgHeartbeat"
         /\ m.Term >= raft[1].Term)
        => LET r2 == Step(Drained(raft[1]), m)
           IN  /\ r2.Lead = m.From
               /\ r2.electionElapsed = 0
               /\ Cardinality({i \in DOMAIN r2.msgs :
                                 /\ r2.msgs[i].MsgType = "MsgHeartbeatResponse"
                                 /\ r2.msgs[i].To = m.From}) = 1

(* C17: every Heartbeat a Leader has enqueued for a peer, by the heartbeat *)
(* broadcast or in place of a snapshot that is not ready yet, carries      *)
(* Commit = min(Match of the peer, committed of the Leader).               *)
C17_HeartbeatCommitClamp ==
    raft[1].State = StateLeader
    => \A i \in DOMAIN raft[1].msgs :
          raft[1].msgs[i].MsgType = "MsgHeartbeat"
          => raft[1].msgs[i].Commit =
                min(raft[1].Prs[raft[1].msgs[i].To].Match,
                    raft[1].RaftLog.committed)

(* the heartbeat broadcast alone keeps the clamp: a Leader of a log that   *)
(* is not compacted has enqueued clamped Heartbeats                         *)
HeartbeatBroadcastClamped ==
    raft[1].RaftLog.start = 0 => C17_HeartbeatCommitClamp

(* the node is Leader after the step and was not before *)
Promoted == raft[1].State # StateLeader /\ raft'[1].State = StateLeader

(* C18: immediately after every transition to Leader the Progress of each *)
(* other peer has Match = 0 and Next = last index of the Leader + 1 (the   *)
(* last index taken before or after the no-op entry), whatever Match and   *)
(* Next an earlier leadership left.                                        *)
C18_ProgressReset ==
    [][Promoted
       => \A p \in DOMAIN raft[1].Prs \ {raft[1].id} :
             /\ raft'[1].Prs[p].Match = 0
             /\ raft'[1].Prs[p].Next \in {LastIndex(raft[1].RaftLog) + 1,
                                          LastIndex(raft'[1].RaftLog) + 1}]_vars

(* the Match half of C18 alone *)
MatchResetOnPromotion ==
    [][Promoted
       => \A p \in DOMAIN raft[1].Prs \ {raft[1].id} :
             raft'[1].Prs[p].Match = 0]_vars

(* C19: every transition to Leader appends exactly one entry to the log, *)
(* with the term of the new Leader and the index one above the last index *)
(* the log had, not the literal index 1.                                   *)
C19_NoopEntry ==
    [][Promoted
       => raft'[1].RaftLog.entries =
             Append(raft[1].RaftLog.entries,
                    Entry(raft'[1].Term, LastIndex(raft[1].RaftLog) + 1))]_vars

(* a Leader that has not proposed and whose no-op, the one entry of its   *)
(* log that is not stored, follows an entry with index 1 or above         *)
C19_Witness ==
    /\ raft[1].State = StateLeader
    /\ raft[1].RaftLog.stabled >= 1
    /\ Len(raft[1].RaftLog.entries) = raft[1].RaftLog.stabled - raft[1].RaftLog.start + 2
    /\ LastLog(raft[1].RaftLog) = Entry(raft[1].Term, raft[1].RaftLog.stabled + 1)

NextIsMatchPlusOne ==
    raft[1].State = StateLeader
    => \A p \in DOMAIN raft[1].Prs : raft[1].Prs[p].Next = raft[1].Prs[p].Match + 1

C21_CandidateTimerReset ==
    [][\A n \in DOMAIN raft :
         (/\ raft'[n].State = StateCandidate
          /\ raft'[n].Term > raft[n].Term)
         => raft'[n].electionElapsed = 0]_vars

(* the consequence of C21: a node that steps no message does not raise its *)
(* term on two consecutive ticks                                           *)
NoConsecutiveCampaigns ==
    LET r1 == tick(Drained(raft[1]))
        r2 == tick(Drained(r1))
    IN  ~(r1.Term > raft[1].Term /\ r2.Term > r1.Term)

(* C22: when a Follower or a Candidate steps an Append of a term not below *)
(* its own (the term of the node after the alignment of Step is the term of *)
(* the Append), its electionElapsed is 0 afterwards and an AppendResponse   *)
(* for the sender is enqueued.                                              *)
C22_LeaderContact ==
    \A m \in StepInputs(raft[1]) :
        (/\ m.MsgType = "MsgAppend"
         /\ raft[1].State # StateLeader
         /\ m.Term >= raft[1].Term)
        => LET r2 == Step(Drained(raft[1]), m)
           IN  ~r2.panic
               => /\ r2.electionElapsed = 0
                  /\ Enqueued(r2, "MsgAppendResponse", m.From) >= 1

(* the Appends a node accepts do reset its timer and are answered *)
AcceptedAppendContact ==
    \A m \in StepInputs(raft[1]) :
        Accepts(raft[1], m)
        => LET r2 == Step(Drained(raft[1]), m)
           IN  ~r2.panic
               => /\ r2.electionElapsed = 0
                  /\ Enqueued(r2, "MsgAppendResponse", m.From) >= 1

(* C22 for the Follower alone at the term of the Append *)
FollowerAppendContact ==
    \A m \in StepInputs(raft[1]) :
        (/\ m.MsgType = "MsgAppend"
         /\ raft[1].State = StateFollower
         /\ m.Term = raft[1].Term)
        => LET r2 == Step(Drained(raft[1]), m)
           IN  ~r2.panic
               => /\ r2.electionElapsed = 0
                  /\ Enqueued(r2, "MsgAppendResponse", m.From) >= 1

(* C23: no message among the outgoing messages of a node is addressed to *)
(* the node itself.                                                       *)
C23_NoMessageToSelf ==
    \A n \in DOMAIN raft :
        \A i \in DOMAIN raft[n].msgs : raft[n].msgs[i].To # n

(* the only messages a node addresses to itself are the AppendResponses of *)
(* leaderAppendEntries                                                     *)
OnlyAppendResponseToSelf ==
    \A n \in DOMAIN raft :
        \A i \in DOMAIN raft[n].msgs :
            raft[n].msgs[i].To = n
            => /\ raft[n].msgs[i].MsgType = "MsgAppendResponse"
               /\ raft[n].State = StateLeader

====
